---- MODULE Spec2Model ----
(***************************************************************************)
(* The evaluation scheduler of source/blender/depsgraph/intern/            *)
(* depsgraph_eval.cc: the pending-parents pre-pass, schedule_node /        *)
(* schedule_children / schedule_graph, the worker routine                  *)
(* deg_task_run_func with its same-thread chaining, and the entry points   *)
(* DEG_evaluate_on_refresh_ex / DEG_evaluate_on_refresh /                  *)
(* DEG_evaluate_on_framechange / DEG_needs_eval.                           *)
(*                                                                         *)
(* Every shared-memory access of the scheduling code (the atomic           *)
(* decrement, the separate re-read of num_links_pending, the plain read of *)
(* scheduled, the atomic fetch-and-or) is one step of one thread, so that  *)
(* all interleavings of the seeding thread and the pool's threads are      *)
(* explored.                                                               *)
(***************************************************************************)
EXTENDS Integers, Sequences, FiniteSets, TLC

(* ------------------------------------------------------------------ *)
(* Bounds                                                               *)
(* ------------------------------------------------------------------ *)

\* Worker threads of the task scheduler, besides the thread that calls
\* DEG_evaluate_on_refresh_ex (which works on the pool in work_and_wait).
MaxWorkers == 1

\* History counters (evaluations, pool submissions, claims won, decrements
\* per relation) saturate at this value.
MaxCount == 2

(* ------------------------------------------------------------------ *)
(* Program constants                                                    *)
(* ------------------------------------------------------------------ *)

\* thread_id handed to schedule_node by schedule_graph: the calling thread.
MainThread == 0

\* Modulus of the unsigned counter num_links_pending.  TLC's integers are
\* 32 bit signed, so the 32 bit counter is kept in a narrower unsigned
\* width; a wrap is still a wrap to the largest value.
PendingModulus == 2 ^ 16

Threads == MainThread .. MaxWorkers

\* The node type of a relation's source that is not an operation node: the
\* time source (rel->from->type != DEPSNODE_TYPE_OPERATION).
TimeSource == 0

(* ------------------------------------------------------------------ *)
(* Bit masks                                                            *)
(* ------------------------------------------------------------------ *)

RECURSIVE BitAnd(_, _)
BitAnd(a, b) ==
    IF a = 0 \/ b = 0 THEN 0
    ELSE (a % 2) * (b % 2) + 2 * BitAnd(a \div 2, b \div 2)

(* ------------------------------------------------------------------ *)
(* Graphs                                                               *)
(* ------------------------------------------------------------------ *)

Rel(f, t) == [from |-> f, to |-> t, cyclic |-> FALSE]
Cyc(f, t) == [from |-> f, to |-> t, cyclic |-> TRUE]

\* A graph as the scheduler sees it: operations 1..n in the order of
\* graph->operations, the relations in creation order, per operation its
\* work function (absent for a NOOP), the layers of its owning ID, and the
\* operations a tagging of the graph flags DEPSOP_FLAG_NEEDS_UPDATE.
MakeGraph(nm, n, rels, noops, off, untagged) ==
    [name      |-> nm,
     n         |-> n,
     rels      |-> rels,
     evaluate  |-> [i \in 1..n |-> i \notin noops],
     id_layers |-> [i \in 1..n |-> IF i \in off THEN 2 ELSE 1],
     needs     |-> (1..n) \ untagged,
     layers    |-> 1]

Shapes ==
    { [name |-> "chain4",   n |-> 4, rels |-> <<Rel(1,2), Rel(2,3), Rel(3,4)>>],
      [name |-> "diamond",  n |-> 4, rels |-> <<Rel(1,2), Rel(1,3), Rel(2,4), Rel(3,4)>>],
      [name |-> "fanin",    n |-> 4, rels |-> <<Rel(1,3), Rel(2,3), Rel(3,4)>>],
      [name |-> "cycle2",   n |-> 2, rels |-> <<Cyc(1,2), Cyc(2,1)>>],
      [name |-> "backedge", n |-> 3, rels |-> <<Rel(1,2), Rel(2,3), Cyc(3,1)>>],
      [name |-> "cycrace",  n |-> 4, rels |-> <<Cyc(1,2), Rel(2,3), Rel(3,1), Rel(4,2)>>],
      [name |-> "rawcycle", n |-> 3, rels |-> <<Rel(1,2), Rel(2,3), Rel(3,2)>>],
      [name |-> "timesrc",  n |-> 3, rels |-> <<Rel(TimeSource,1), Rel(1,2), Rel(1,3)>>] }

\* Every shape with all operations tagged, in layer and with a work
\* function, and with any one operation made a NOOP, moved off the layer
\* or left untagged.
Graphs ==
    { MakeGraph(s.name, s.n, s.rels, {}, {}, {}) : s \in Shapes }
    \cup UNION { { MakeGraph(s.name, s.n, s.rels, {i}, {}, {}) : i \in 1..s.n } : s \in Shapes }
    \cup UNION { { MakeGraph(s.name, s.n, s.rels, {}, {i}, {}) : i \in 1..s.n } : s \in Shapes }
    \cup UNION { { MakeGraph(s.name, s.n, s.rels, {}, {}, {i}) : i \in 1..s.n } : s \in Shapes }
    \cup { MakeGraph("noops", 4, <<Rel(1,2), Rel(2,3), Rel(2,4)>>, {1, 2}, {}, {}),
           MakeGraph("cycnoop", 3, <<Rel(1,2), Cyc(2,1), Rel(2,3)>>, {1, 2}, {}, {}),
           MakeGraph("cycfan", 5, <<Rel(1,5), Cyc(1,2), Rel(2,3), Rel(3,1), Rel(4,2)>>,
                     {}, {}, {3}) }

\* The layer masks a caller of DEG_evaluate_on_refresh_ex passes.
LayerMasks == {1, 2}

\* Scene frames written to the time source.
Frames == {1, 2}

(* ------------------------------------------------------------------ *)
(* State                                                                *)
(* ------------------------------------------------------------------ *)

VARIABLES
    graph,              \* the Depsgraph (structure fixed after construction)
    flag,               \* per operation: DEPSOP_FLAG_NEEDS_UPDATE
    entry_tags,         \* graph->entry_tags
    num_links_pending,  \* per operation: OperationDepsNode::num_links_pending
    scheduled,          \* per operation: OperationDepsNode::scheduled
    cfra,               \* the time source's cfra
    ctime,              \* eval_ctx->ctime
    layers,             \* DepsgraphEvalState::layers of the current call
    no_threads,         \* G.debug & G_DEBUG_DEPSGRAPH_NO_THREADS
    pool,               \* per operation: tasks pushed to the pool, not yet started
    pc,                 \* per thread: position in the code
    node,               \* per thread: `node` of deg_task_run_func (0: not in a task)
    root,               \* per thread: the taskdata the running task was started with
    sn,                 \* per thread: arguments of the running schedule_node call
    stack,              \* per thread: the active schedule_children calls
    seed_it,            \* iterator of schedule_graph (0 outside of it)
    calc_todo,          \* indices calculate_pending_parents has not run yet
    last_call,          \* how the last call of DEG_evaluate_on_refresh_ex went
    hist                \* history of the current call (observation only)

vars == <<graph, flag, entry_tags, num_links_pending, scheduled, cfra, ctime,
          layers, no_threads, pool, pc, node, root, sn, stack, seed_it,
          calc_todo, last_call, hist>>

Ops == 1 .. graph.n
RelIds == 1 .. Len(graph.rels)

NoCall == [node |-> 0, dec |-> FALSE, rel |-> 0]

Sat(x) == IF x < MaxCount THEN x + 1 ELSE MaxCount

EmptyHist ==
    [started   |-> [i \in Ops |-> 0],     \* work function entered
     evaluated |-> [i \in Ops |-> 0],     \* work function returned
     pushed    |-> [i \in Ops |-> 0],     \* BLI_task_pool_push_from_thread
     claimed   |-> [i \in Ops |-> 0],     \* fetch-and-or that returned false
     lost      |-> [i \in Ops |-> 0],     \* fetch-and-or that returned true
     dec       |-> [r \in RelIds |-> 0],  \* decrements done for a relation
     seeded    |-> {},                    \* pushed by schedule_graph's own call
     fanned    |-> {},                    \* pushed from schedule_children
     chained   |-> {},                    \* taken over by the worker loop
     noop_fan  |-> [i \in Ops |-> 0],     \* schedule_children run for a claimed NOOP
     task_of   |-> [i \in Ops |-> 0],     \* taskdata of the task that evaluated it
     asserted  |-> FALSE,                 \* BLI_assert(num_links_pending > 0) failed
     tagged    |-> {}]                    \* operations flagged when the call was made

\* The history at the start of a call made with the flags fl.
NewHist(fl) == [EmptyHist EXCEPT !.tagged = { i \in Ops : fl[i] }]

(* ------------------------------------------------------------------ *)
(* Helpers read off the data structures                                 *)
(* ------------------------------------------------------------------ *)

\* node->outlinks: the relations leaving an operation, in creation order.
OutLinks(n) ==
    LET F[i \in 0 .. Len(graph.rels)] ==
            IF i = 0 THEN <<>>
            ELSE IF graph.rels[i].from = n THEN Append(F[i - 1], i) ELSE F[i - 1]
    IN F[Len(graph.rels)]

\* node->inlinks, as a set of relation ids.
InLinks(n) == { r \in RelIds : graph.rels[r].to = n }

\* Variant: no node is taken for a NOOP.
IsNoopNever(n) == FALSE

\* Variant: the nodes with an evaluate callback are taken for the NOOPs.
IsNoopInverted(n) == graph.evaluate[n]

\* OperationDepsNode::is_noop(): no evaluate callback.
IsNoop(n) == ~graph.evaluate[n]

\* Variant: the layer test alone, the flag left out.
NeedsEvalAnyFlag(n, l) == BitAnd(graph.id_layers[n], l) # 0

\* Variant: the flag alone, the layer test left out.
NeedsEvalAnyLayer(n, l) == flag[n]

\* (flag & DEPSOP_FLAG_NEEDS_UPDATE) != 0 && (id_layers & layers) != 0
NeedsEval(n, l) == flag[n] /\ BitAnd(graph.id_layers[n], l) # 0

\* Variant: every relation from an operation that is not cyclic counts,
\* whether or not its source needs an update.
CountsAnySource(r, l) ==
    /\ graph.rels[r].from # TimeSource
    /\ ~graph.rels[r].cyclic

\* Variant: relations flagged cyclic are counted like the others.
CountsCyclicToo(r, l) ==
    /\ graph.rels[r].from # TimeSource
    /\ NeedsEval(graph.rels[r].from, l)

\* The test of calculate_pending_func on one incoming relation.
CountsAsPending(r, l) ==
    /\ graph.rels[r].from # TimeSource
    /\ ~graph.rels[r].cyclic
    /\ NeedsEval(graph.rels[r].from, l)

\* Variant: the incoming relations are counted for every node, the test
\* on the node itself left out.
PendingParentsUnguarded(n, l) ==
    Cardinality({ r \in InLinks(n) : CountsAsPending(r, l) })

\* The value calculate_pending_func leaves in num_links_pending.
PendingParents(n, l) ==
    IF NeedsEval(n, l)
    THEN Cardinality({ r \in InLinks(n) : CountsAsPending(r, l) })
    ELSE 0

\* atomic_sub_uint32(&x, 1)
AtomicSubUint32(x) == (x + PendingModulus - 1) % PendingModulus

\* Variant: a plain store of the flag, the previous value not fetched.
StoreWithoutFetch(n) == FALSE

\* What atomic_fetch_and_or_uint8(&scheduled, true) returns.
FetchAndOr(n) == scheduled[n]

\* Variant: schedule_children asks for the decrement on every relation.
DecParentsAlways(r) == TRUE

\* Variant: the decrement is asked for on the cyclic relations only.
DecParentsInverted(r) == graph.rels[r].cyclic

\* dec_parents as schedule_children passes it.
DecParents(r) == ~graph.rels[r].cyclic

\* Variant: the early out is never taken.
NeverEarlyOut == FALSE

\* graph->entry_tags.size() == 0
NothingToUpdate == entry_tags = {}

\* A thread is inside deg_task_run_func.
InTask(t) == node[t] # 0

\* The pool may start one more task: pool->num_threads is 1 under the debug
\* flag and unlimited otherwise.
PoolMayRun == no_threads => \A t \in Threads : ~InTask(t)

\* The pool holds no queued and no running task.
PoolDrained == (\A n \in Ops : pool[n] = 0) /\ (\A t \in Threads : ~InTask(t))

(* ------------------------------------------------------------------ *)
(* Initial state                                                        *)
(* ------------------------------------------------------------------ *)

\* A freshly built graph: nothing tagged, a zeroed evaluation context
\* (MEM_callocN), every thread of the scheduler waiting for work.
Init ==
    /\ graph \in Graphs
    /\ flag = [i \in Ops |-> FALSE]
    /\ entry_tags = {}
    /\ num_links_pending = [i \in Ops |-> 0]
    /\ scheduled = [i \in Ops |-> FALSE]
    /\ cfra = 1
    /\ ctime = 0
    /\ layers = 0
    /\ no_threads \in BOOLEAN
    /\ pool = [i \in Ops |-> 0]
    /\ pc = [t \in Threads |-> IF t = MainThread THEN "idle" ELSE "wait"]
    /\ node = [t \in Threads |-> 0]
    /\ root = [t \in Threads |-> 0]
    /\ sn = [t \in Threads |-> NoCall]
    /\ stack = [t \in Threads |-> <<>>]
    /\ seed_it = 0
    /\ calc_todo = {}
    /\ last_call = "none"
    /\ hist = EmptyHist

(* ------------------------------------------------------------------ *)
(* Control transfers shared by the actions                              *)
(* ------------------------------------------------------------------ *)

\* deg_task_run_func returns: the thread goes back to the pool.
LeaveTask(t) ==
    /\ pc' = [pc EXCEPT ![t] = "wait"]
    /\ node' = [node EXCEPT ![t] = 0]
    /\ root' = [root EXCEPT ![t] = 0]
    /\ stack' = [stack EXCEPT ![t] = <<>>]
    /\ sn' = [sn EXCEPT ![t] = NoCall]
    /\ UNCHANGED seed_it

\* schedule_node returns to its caller, whose schedule_children calls are
\* stk: to the loop of the innermost schedule_children, or, with none
\* active, to the loop of schedule_graph.
ReturnFromNode(t, stk) ==
    /\ UNCHANGED <<node, root>>
    /\ sn' = [sn EXCEPT ![t] = NoCall]
    /\ IF stk # <<>>
       THEN /\ pc' = [pc EXCEPT ![t] = "sc_iter"]
            /\ stack' = [stack EXCEPT ![t] = [stk EXCEPT ![Len(stk)].it = @ + 1]]
            /\ UNCHANGED seed_it
       ELSE /\ pc' = [pc EXCEPT ![t] = "seed"]
            /\ stack' = [stack EXCEPT ![t] = <<>>]
            /\ seed_it' = seed_it + 1

\* schedule_children returns: into the schedule_node that called it for a
\* claimed NOOP (which then returns as well), or into deg_task_run_func,
\* which breaks out of its loop.
ReturnFromChildren(t) ==
    LET stk == SubSeq(stack[t], 1, Len(stack[t]) - 1) IN
    IF stk # <<>> \/ ~InTask(t)
    THEN ReturnFromNode(t, stk)
    ELSE LeaveTask(t)

(* ------------------------------------------------------------------ *)
(* Tagging (the graph's tagging API, outside this file)                 *)
(* ------------------------------------------------------------------ *)

\* The operations reached from a set along the relations R.
RECURSIVE Reach(_, _)
Reach(S, R) ==
    LET T == S \cup { graph.rels[r].to : r \in { q \in R : graph.rels[q].from \in S } }
    IN IF T = S THEN S ELSE Reach(T, R)

\* The operations reached from a set along relations of any kind.
Downstream(S) == Reach(S, RelIds)

\* DEG_id_tag_update and the flush that follows: the graph's taggable
\* operations get DEPSOP_FLAG_NEEDS_UPDATE and become entry tags.
DEG_graph_tag ==
    /\ pc[MainThread] = "idle"
    /\ entry_tags = {}
    /\ graph.needs # {}
    /\ flag' = [i \in Ops |-> i \in graph.needs]
    /\ entry_tags' = graph.needs
    /\ UNCHANGED <<graph, num_links_pending, scheduled, cfra, ctime, layers,
                   no_threads, pool, pc, node, root, sn, stack, seed_it,
                   calc_todo, last_call, hist>>

(* ------------------------------------------------------------------ *)
(* Entry points                                                         *)
(* ------------------------------------------------------------------ *)

\* A call of DEG_evaluate_on_refresh_ex(eval_ctx, graph, l) is made.
DEG_evaluate_on_refresh_ex(l) ==
    /\ pc[MainThread] = "idle"
    /\ layers' = l
    /\ pc' = [pc EXCEPT ![MainThread] = "entry"]
    /\ last_call' = "none"
    /\ hist' = NewHist(flag)
    /\ UNCHANGED <<graph, flag, entry_tags, num_links_pending, scheduled, cfra,
                   ctime, no_threads, pool, node, root, sn, stack, seed_it,
                   calc_todo>>

\* DEG_evaluate_on_refresh: the scene's frame goes to the time source, then
\* DEG_evaluate_on_refresh_ex with graph->layers.
DEG_evaluate_on_refresh(f) ==
    /\ pc[MainThread] = "idle"
    /\ cfra' = f
    /\ layers' = graph.layers
    /\ pc' = [pc EXCEPT ![MainThread] = "entry"]
    /\ last_call' = "none"
    /\ hist' = NewHist(flag)
    /\ UNCHANGED <<graph, flag, entry_tags, num_links_pending, scheduled,
                   ctime, no_threads, pool, node, root, sn, stack, seed_it,
                   calc_todo>>

\* The operations the time source's tag_update tags: the targets of its
\* outgoing relations.
TimeSourceTargets == { graph.rels[r].to : r \in { q \in RelIds : graph.rels[q].from = TimeSource } }

\* DEG_evaluate_on_framechange: ctime goes to the time source, the time
\* source is tagged, the tags are flushed, then DEG_evaluate_on_refresh_ex.
DEG_evaluate_on_framechange(f, l) ==
    /\ pc[MainThread] = "idle"
    /\ cfra' = f
    /\ entry_tags' = entry_tags \cup TimeSourceTargets
    /\ flag' = [i \in Ops |-> flag[i] \/ i \in Downstream(entry_tags \cup TimeSourceTargets)]
    /\ layers' = l
    /\ pc' = [pc EXCEPT ![MainThread] = "entry"]
    /\ last_call' = "none"
    /\ hist' = NewHist(flag')
    /\ UNCHANGED <<graph, num_links_pending, scheduled, ctime, no_threads,
                   pool, node, root, sn, stack, seed_it, calc_todo>>

\* Variant: the context keeps the time it has.
TimeSourceNotRead == ctime

\* graph->find_time_source()->cfra, as DEG_evaluate_on_refresh_ex reads it.
TimeSourceCfra == cfra

\* DEG_evaluate_on_refresh_ex up to calculate_pending_parents: the early
\* out on an empty tag set, else the time of the pass and the pool.
EvaluateEntry ==
    /\ pc[MainThread] = "entry"
    /\ IF NothingToUpdate
       THEN /\ pc' = [pc EXCEPT ![MainThread] = "idle"]
            /\ last_call' = "early_out"
            /\ UNCHANGED <<ctime, calc_todo>>
       ELSE /\ ctime' = TimeSourceCfra
            /\ calc_todo' = Ops
            /\ pc' = [pc EXCEPT ![MainThread] = "calc"]
            /\ last_call' = "running"
    /\ UNCHANGED <<graph, flag, entry_tags, num_links_pending, scheduled, cfra,
                   layers, no_threads, pool, node, root, sn, stack, seed_it, hist>>

\* calculate_pending_func(data, i) for one index of the range; the range
\* is run in any order (BLI_task_parallel_range).  After the last index
\* the driver goes on to schedule_graph.
CalculatePending(i) ==
    /\ pc[MainThread] = "calc"
    /\ i \in calc_todo
    /\ num_links_pending' = [num_links_pending EXCEPT ![i] = PendingParents(i, layers)]
    /\ scheduled' = [scheduled EXCEPT ![i] = FALSE]
    /\ calc_todo' = calc_todo \ {i}
    /\ IF calc_todo = {i}
       THEN /\ pc' = [pc EXCEPT ![MainThread] = "seed"]
            /\ seed_it' = 1
       ELSE UNCHANGED <<pc, seed_it>>
    /\ UNCHANGED <<graph, flag, entry_tags, cfra, ctime, layers, no_threads,
                   pool, node, root, sn, stack, last_call, hist>>

\* One iteration of schedule_graph: schedule_node(node, false, 0) for the
\* next operation, or the end of the loop and BLI_task_pool_work_and_wait.
ScheduleGraph ==
    /\ pc[MainThread] = "seed"
    /\ IF seed_it > graph.n
       THEN /\ pc' = [pc EXCEPT ![MainThread] = "wait"]
            /\ UNCHANGED sn
       ELSE /\ pc' = [pc EXCEPT ![MainThread] = "sn_enter"]
            /\ sn' = [sn EXCEPT ![MainThread] = [node |-> seed_it, dec |-> FALSE, rel |-> 0]]
    /\ UNCHANGED <<graph, flag, entry_tags, num_links_pending, scheduled, cfra,
                   ctime, layers, no_threads, pool, node, root, stack, seed_it,
                   calc_todo, last_call, hist>>

\* DEG_graph_clear_tags: the update flags of all operations and the set of
\* entry tags are cleared.
DEG_graph_clear_tags ==
    /\ flag' = [i \in Ops |-> FALSE]
    /\ entry_tags' = {}

\* BLI_task_pool_work_and_wait returns once the pool is drained; the pool
\* is freed and DEG_graph_clear_tags is called.
EvaluateEnd ==
    /\ pc[MainThread] = "wait"
    /\ PoolDrained
    /\ DEG_graph_clear_tags
    /\ pc' = [pc EXCEPT ![MainThread] = "idle"]
    /\ seed_it' = 0
    /\ last_call' = "done"
    /\ UNCHANGED <<graph, num_links_pending, scheduled, cfra, ctime, layers,
                   no_threads, pool, node, root, sn, stack, calc_todo, hist>>

\* Variant: the test of the size inverted.
NeedsEvalInverted == entry_tags = {}

\* DEG_needs_eval: graph->entry_tags.size() != 0
DEG_needs_eval == entry_tags # {}

(* ------------------------------------------------------------------ *)
(* schedule_node and schedule_children                                  *)
(* ------------------------------------------------------------------ *)

\* schedule_node, up to and including the decrement: nothing for a node
\* that needs no update or is off the layers; with dec_parents the assert
\* and atomic_sub_uint32.
ScheduleNodeEnter(t) ==
    /\ pc[t] = "sn_enter"
    /\ LET n == sn[t].node IN
       IF ~NeedsEval(n, layers)
       THEN /\ ReturnFromNode(t, stack[t])
            /\ UNCHANGED <<num_links_pending, hist>>
       ELSE /\ pc' = [pc EXCEPT ![t] = "sn_read"]
            /\ UNCHANGED <<node, root, sn, stack, seed_it>>
            /\ IF sn[t].dec
               THEN /\ num_links_pending' =
                         [num_links_pending EXCEPT ![n] = AtomicSubUint32(@)]
                    /\ hist' = [hist EXCEPT
                                  !.dec[sn[t].rel] = Sat(@),
                                  !.asserted = @ \/ num_links_pending[n] = 0]
               ELSE UNCHANGED <<num_links_pending, hist>>
    /\ UNCHANGED <<graph, flag, entry_tags, scheduled, cfra, ctime, layers,
                   no_threads, pool, calc_todo, last_call>>

\* schedule_node: the read of num_links_pending that follows the decrement.
ScheduleNodeRead(t) ==
    /\ pc[t] = "sn_read"
    /\ IF num_links_pending[sn[t].node] = 0
       THEN /\ pc' = [pc EXCEPT ![t] = "sn_claim"]
            /\ UNCHANGED <<node, root, sn, stack, seed_it>>
       ELSE ReturnFromNode(t, stack[t])
    /\ UNCHANGED <<graph, flag, entry_tags, num_links_pending, scheduled, cfra,
                   ctime, layers, no_threads, pool, calc_todo, last_call, hist>>

\* schedule_node: the atomic fetch-and-or on scheduled and what follows it:
\* nothing when the flag was set, schedule_children for a NOOP, else
\* BLI_task_pool_push_from_thread.
ScheduleNodeClaim(t) ==
    /\ pc[t] = "sn_claim"
    /\ LET n == sn[t].node
           is_scheduled == FetchAndOr(n)
       IN
       /\ scheduled' = [scheduled EXCEPT ![n] = TRUE]
       /\ IF is_scheduled
          THEN /\ ReturnFromNode(t, stack[t])
               /\ hist' = [hist EXCEPT !.lost[n] = Sat(@)]
               /\ UNCHANGED pool
          ELSE IF IsNoop(n)
          THEN /\ pc' = [pc EXCEPT ![t] = "sc_iter"]
               /\ stack' = [stack EXCEPT ![t] = Append(@, [node |-> n, it |-> 1])]
               /\ hist' = [hist EXCEPT !.claimed[n] = Sat(@), !.noop_fan[n] = Sat(@)]
               /\ sn' = [sn EXCEPT ![t] = NoCall]
               /\ UNCHANGED <<pool, node, root, seed_it>>
          ELSE /\ pool' = [pool EXCEPT ![n] = Sat(@)]
               /\ hist' = [hist EXCEPT
                             !.claimed[n] = Sat(@),
                             !.pushed[n] = Sat(@),
                             !.seeded = IF stack[t] = <<>> THEN @ \cup {n} ELSE @,
                             !.fanned = IF stack[t] # <<>> THEN @ \cup {n} ELSE @]
               /\ ReturnFromNode(t, stack[t])
    /\ UNCHANGED <<graph, flag, entry_tags, num_links_pending, cfra, ctime,
                   layers, no_threads, calc_todo, last_call>>

\* One iteration of schedule_children: the end of the loop, or the read of
\* child->scheduled and then either `continue` or the call of
\* schedule_node(child, not cyclic).
ScheduleChildren(t) ==
    /\ pc[t] = "sc_iter"
    /\ LET top == stack[t][Len(stack[t])]
           outs == OutLinks(top.node)
       IN
       IF top.it > Len(outs)
       THEN ReturnFromChildren(t)
       ELSE LET r == outs[top.it]
                child == graph.rels[r].to
            IN
            IF scheduled[child]
            THEN /\ stack' = [stack EXCEPT ![t][Len(stack[t])].it = @ + 1]
                 /\ UNCHANGED <<pc, sn, node, root, seed_it>>
            ELSE /\ sn' = [sn EXCEPT ![t] = [node |-> child, dec |-> DecParents(r), rel |-> r]]
                 /\ pc' = [pc EXCEPT ![t] = "sn_enter"]
                 /\ UNCHANGED <<stack, node, root, seed_it>>
    /\ UNCHANGED <<graph, flag, entry_tags, num_links_pending, scheduled, cfra,
                   ctime, layers, no_threads, pool, calc_todo, last_call, hist>>

(* ------------------------------------------------------------------ *)
(* The pool and deg_task_run_func                                       *)
(* ------------------------------------------------------------------ *)

\* A thread of the pool (a worker, or the calling thread inside
\* BLI_task_pool_work_and_wait) takes a pushed task and enters
\* deg_task_run_func with it.
TaskStart(t, n) ==
    /\ pc[t] = "wait"
    /\ pool[n] > 0
    /\ PoolMayRun
    /\ pool' = [pool EXCEPT ![n] = @ - 1]
    /\ pc' = [pc EXCEPT ![t] = "run_eval"]
    /\ node' = [node EXCEPT ![t] = n]
    /\ root' = [root EXCEPT ![t] = n]
    /\ UNCHANGED <<graph, flag, entry_tags, num_links_pending, scheduled, cfra,
                   ctime, layers, no_threads, sn, stack, seed_it, calc_todo,
                   last_call, hist>>

\* Top of the loop: with a work function, task_started and the call of
\* node->evaluate; without one, straight to the outgoing links.
TaskEvaluateBegin(t) ==
    /\ pc[t] = "run_eval"
    /\ IF graph.evaluate[node[t]]
       THEN /\ pc' = [pc EXCEPT ![t] = "run_exec"]
            /\ hist' = [hist EXCEPT !.started[node[t]] = Sat(@)]
       ELSE /\ pc' = [pc EXCEPT ![t] = "run_links"]
            /\ UNCHANGED hist
    /\ UNCHANGED <<graph, flag, entry_tags, num_links_pending, scheduled, cfra,
                   ctime, layers, no_threads, pool, node, root, sn, stack,
                   seed_it, calc_todo, last_call>>

\* node->evaluate returns; task_completed.
TaskEvaluateEnd(t) ==
    /\ pc[t] = "run_exec"
    /\ pc' = [pc EXCEPT ![t] = "run_links"]
    /\ hist' = [hist EXCEPT !.evaluated[node[t]] = Sat(@),
                            !.task_of[node[t]] = root[t]]
    /\ UNCHANGED <<graph, flag, entry_tags, num_links_pending, scheduled, cfra,
                   ctime, layers, no_threads, pool, node, root, sn, stack,
                   seed_it, calc_todo, last_call>>

\* Variant: no link count qualifies for chaining.
SingleOutLinkNever(n) == FALSE

\* Variant: the first link is followed whenever there is one.
SingleOutLinkOrMore(n) == Len(OutLinks(n)) >= 1

\* outlinks.size() == 1
SingleOutLink(n) == Len(OutLinks(n)) = 1

\* The only child of a node with a single outgoing link, and that link.
OnlyLink(n) == OutLinks(n)[1]
OnlyChild(n) == graph.rels[OnlyLink(n)].to

\* Variant: `continue` where the loop is to be left.
RetryOnScheduled(t) ==
    /\ pc' = [pc EXCEPT ![t] = "run_eval"]
    /\ UNCHANGED <<node, root, sn, stack, seed_it>>

\* The single child is already scheduled: the loop is left.
ChildAlreadyScheduled(t) == LeaveTask(t)

\* After the evaluation: with one outgoing link the read of
\* child->scheduled (leave when set), otherwise schedule_children.
TaskLinks(t) ==
    /\ pc[t] = "run_links"
    /\ IF SingleOutLink(node[t])
       THEN IF ~scheduled[OnlyChild(node[t])]
            THEN /\ pc' = [pc EXCEPT ![t] = "ch_dec"]
                 /\ UNCHANGED <<node, root, sn, stack, seed_it>>
            ELSE ChildAlreadyScheduled(t)
       ELSE /\ pc' = [pc EXCEPT ![t] = "sc_iter"]
            /\ stack' = [stack EXCEPT ![t] = <<[node |-> node[t], it |-> 1]>>]
            /\ UNCHANGED <<node, root, sn, seed_it>>
    /\ UNCHANGED <<graph, flag, entry_tags, num_links_pending, scheduled, cfra,
                   ctime, layers, no_threads, pool, calc_todo, last_call, hist>>

\* Variant: the chaining path decrements for a cyclic relation too.
ChainCountsCyclic(r) == TRUE

\* (rel->flag & DEPSREL_FLAG_CYCLIC) == 0, as the chaining path tests it.
ChainCounts(r) == ~graph.rels[r].cyclic

\* Chaining: leave when the child needs no update or is off the layers;
\* else, for a relation that is not cyclic, the assert and the decrement.
ChainDecrement(t) ==
    /\ pc[t] = "ch_dec"
    /\ LET rel == OnlyLink(node[t])
           child == OnlyChild(node[t])
       IN
       IF ~NeedsEval(child, layers)
       THEN /\ LeaveTask(t)
            /\ UNCHANGED <<num_links_pending, hist>>
       ELSE /\ pc' = [pc EXCEPT ![t] = "ch_read"]
            /\ UNCHANGED <<node, root, sn, stack, seed_it>>
            /\ IF ChainCounts(rel)
               THEN /\ num_links_pending' =
                         [num_links_pending EXCEPT ![child] = AtomicSubUint32(@)]
                    /\ hist' = [hist EXCEPT
                                  !.dec[rel] = Sat(@),
                                  !.asserted = @ \/ num_links_pending[child] = 0]
               ELSE UNCHANGED <<num_links_pending, hist>>
    /\ UNCHANGED <<graph, flag, entry_tags, scheduled, cfra, ctime, layers,
                   no_threads, pool, calc_todo, last_call>>

\* Variant: the chaining path does not look at the child's counter.
ChainReadyUnchecked(child) == TRUE

\* Variant: the chaining path never finds the child ready.
ChainReadyNever(child) == FALSE

\* Variant: one outstanding dependency is let through.
ChainReadyBelowTwo(child) == num_links_pending[child] <= 1

\* child->num_links_pending == 0, as the chaining path reads it.
ChainReady(child) == num_links_pending[child] = 0

\* Chaining: the read of the child's counter.
ChainRead(t) ==
    /\ pc[t] = "ch_read"
    /\ IF ChainReady(OnlyChild(node[t]))
       THEN /\ pc' = [pc EXCEPT ![t] = "ch_claim"]
            /\ UNCHANGED <<node, root, sn, stack, seed_it>>
       ELSE LeaveTask(t)
    /\ UNCHANGED <<graph, flag, entry_tags, num_links_pending, scheduled, cfra,
                   ctime, layers, no_threads, pool, calc_todo, last_call, hist>>

\* Chaining: the atomic fetch-and-or; the loop goes on with the child when
\* this thread set the flag, and is left otherwise.
ChainClaim(t) ==
    /\ pc[t] = "ch_claim"
    /\ LET child == OnlyChild(node[t])
           is_scheduled == FetchAndOr(child)
       IN
       /\ scheduled' = [scheduled EXCEPT ![child] = TRUE]
       /\ IF ~is_scheduled
          THEN /\ node' = [node EXCEPT ![t] = child]
               /\ pc' = [pc EXCEPT ![t] = "run_eval"]
               /\ hist' = [hist EXCEPT !.claimed[child] = Sat(@),
                                       !.chained = @ \cup {child}]
               /\ UNCHANGED <<root, sn, stack, seed_it>>
          ELSE /\ LeaveTask(t)
               /\ hist' = [hist EXCEPT !.lost[child] = Sat(@)]
    /\ UNCHANGED <<graph, flag, entry_tags, num_links_pending, cfra, ctime,
                   layers, no_threads, pool, calc_todo, last_call>>

(* ------------------------------------------------------------------ *)
(* Specification                                                        *)
(* ------------------------------------------------------------------ *)

Next ==
    \/ DEG_graph_tag
    \/ \E l \in LayerMasks : DEG_evaluate_on_refresh_ex(l)
    \/ \E f \in Frames : DEG_evaluate_on_refresh(f)
    \/ \E f \in Frames, l \in LayerMasks : DEG_evaluate_on_framechange(f, l)
    \/ EvaluateEntry
    \/ \E i \in Ops : CalculatePending(i)
    \/ ScheduleGraph
    \/ EvaluateEnd
    \/ \E t \in Threads : ScheduleNodeEnter(t)
    \/ \E t \in Threads : ScheduleNodeRead(t)
    \/ \E t \in Threads : ScheduleNodeClaim(t)
    \/ \E t \in Threads : ScheduleChildren(t)
    \/ \E t \in Threads, n \in Ops : TaskStart(t, n)
    \/ \E t \in Threads : TaskEvaluateBegin(t)
    \/ \E t \in Threads : TaskEvaluateEnd(t)
    \/ \E t \in Threads : TaskLinks(t)
    \/ \E t \in Threads : ChainDecrement(t)
    \/ \E t \in Threads : ChainRead(t)
    \/ \E t \in Threads : ChainClaim(t)

Spec == Init /\ [][Next]_vars

\* The steps of a call once it is made: the calling thread and the pool's
\* threads keep running until the call returns.
PassStep ==
    \/ EvaluateEntry
    \/ \E i \in Ops : CalculatePending(i)
    \/ ScheduleGraph
    \/ EvaluateEnd
    \/ \E t \in Threads : ScheduleNodeEnter(t)
    \/ \E t \in Threads : ScheduleNodeRead(t)
    \/ \E t \in Threads : ScheduleNodeClaim(t)
    \/ \E t \in Threads : ScheduleChildren(t)
    \/ \E t \in Threads, n \in Ops : TaskStart(t, n)
    \/ \E t \in Threads : TaskEvaluateBegin(t)
    \/ \E t \in Threads : TaskEvaluateEnd(t)
    \/ \E t \in Threads : TaskLinks(t)
    \/ \E t \in Threads : ChainDecrement(t)
    \/ \E t \in Threads : ChainRead(t)
    \/ \E t \in Threads : ChainClaim(t)

\* The pool without the one-thread limit: every schedule of the limited
\* pool is a schedule of the unlimited one, so progress is checked there.
InitFair == Init /\ ~no_threads

\* The behaviours in which the threads of a call never all halt while one
\* of them can take a step.
FairSpec == InitFair /\ [][Next]_vars /\ WF_vars(PassStep)

(* ------------------------------------------------------------------ *)
(* Vocabulary of the properties                                         *)
(* ------------------------------------------------------------------ *)

\* A full pass is under way (from the time assignment on) or has returned.
InPass == last_call = "running"
PassDone == last_call = "done"

\* The owner's layers intersect the mask of the call.
InLayer(n) == BitAnd(graph.id_layers[n], layers) # 0

\* Flagged for update when the call was made, and inside the layer mask.
Selected(n) == n \in hist.tagged /\ InLayer(n)

\* The relations between operations, and those not flagged cyclic.
OpRels == { r \in RelIds : graph.rels[r].from # TimeSource }
PlainRels == { r \in OpRels : ~graph.rels[r].cyclic }

\* The relations R contain a cycle.
HasCycle(R) ==
    \E n \in Ops : n \in Reach({ graph.rels[r].to : r \in { q \in R : graph.rels[q].from = n } }, R)

\* The dependencies of n that the pass has to wait for: relations that are
\* not cyclic, from a selected operation.
Dependencies(n) == { r \in InLinks(n) \cap PlainRels : Selected(graph.rels[r].from) }

\* The operation has been through the pass: its work function has
\* returned, or, for a NOOP, it has been claimed.
Completed(p) == IF IsNoop(p) THEN hist.claimed[p] > 0 ELSE hist.evaluated[p] > 0

\* The operation has been submitted to the pool, taken over by a worker
\* loop, or has started executing.
Launched(n) == hist.pushed[n] > 0 \/ n \in hist.chained \/ hist.started[n] > 0

(* ------------------------------------------------------------------ *)
(* C1                                                                   *)
(* ------------------------------------------------------------------ *)

\* C1: on a graph whose relations contain no cycle, when a full pass has
\* returned, every selected operation with a work function has had it
\* entered exactly once and returned exactly once; and at no moment of any
\* interleaving has a work function run twice.
C1_ExactlyOncePerPass ==
    ~HasCycle(OpRels) =>
        /\ \A n \in Ops : hist.started[n] <= 1 /\ hist.evaluated[n] <= hist.started[n]
        /\ PassDone =>
              \A n \in Ops : (Selected(n) /\ ~IsNoop(n)) =>
                  hist.started[n] = 1 /\ hist.evaluated[n] = 1

\* A diamond pass has returned in which both middle nodes raced for the
\* bottom node: one won the claim, one lost it, and all four ran.
C1_Witness ==
    /\ PassDone
    /\ graph.name = "diamond"
    /\ \A n \in Ops : Selected(n) /\ ~IsNoop(n) /\ hist.evaluated[n] = 1
    /\ hist.lost[4] = 1

(* ------------------------------------------------------------------ *)
(* C2                                                                   *)
(* ------------------------------------------------------------------ *)

\* C2: whenever an operation has been submitted to the pool, taken over by
\* chaining or started, every dependency of it (a relation not flagged
\* cyclic from a selected operation) has completed and has been traversed
\* (its decrement done).
C2_DependencyOrder ==
    \A n \in Ops : Launched(n) =>
        \A r \in Dependencies(n) :
            Completed(graph.rels[r].from) /\ hist.dec[r] > 0

\* The bottom of the diamond has started while both middle nodes had
\* finished, the pass still running.
C2_Witness ==
    /\ InPass
    /\ graph.name = "diamond"
    /\ \A n \in Ops : Selected(n) /\ ~IsNoop(n)
    /\ hist.started[4] = 1
    /\ hist.evaluated[2] = 1 /\ hist.evaluated[3] = 1

(* ------------------------------------------------------------------ *)
(* C3                                                                   *)
(* ------------------------------------------------------------------ *)

\* C3: on any graph, within a pass the fetch-and-or on an operation's
\* scheduled flag returns false at most once, the flag is set exactly when
\* that has happened, every submission, chaining take-over and NOOP
\* fan-out of the operation is the act of that one winner, and no work
\* function runs twice.
C3_ClaimOnce ==
    (InPass \/ PassDone) =>
        \A n \in Ops \ calc_todo :
            /\ hist.claimed[n] <= 1
            /\ scheduled[n] <=> hist.claimed[n] = 1
            /\ hist.pushed[n] + hist.noop_fan[n]
                 + (IF n \in hist.chained THEN 1 ELSE 0) <= hist.claimed[n]
            /\ hist.started[n] <= hist.claimed[n]
            /\ hist.evaluated[n] <= 1

\* On the flagged two-node cycle a path lost the claim on a node that
\* another path had won, and the node ran once.
C3_Witness ==
    /\ PassDone
    /\ HasCycle(OpRels)
    /\ \E n \in Ops : hist.lost[n] >= 1 /\ hist.claimed[n] = 1 /\ hist.evaluated[n] = 1

(* ------------------------------------------------------------------ *)
(* C4                                                                   *)
(* ------------------------------------------------------------------ *)

\* C4: during and after a pass an operation whose owner's layers do not
\* intersect the mask is never claimed, never in the pool, never the node
\* of a running task and never executed, whatever its flag.
C4_OffLayerUntouched ==
    (InPass \/ PassDone) =>
        \A n \in Ops \ calc_todo : ~InLayer(n) =>
            /\ ~scheduled[n]
            /\ hist.claimed[n] = 0 /\ hist.lost[n] = 0
            /\ hist.pushed[n] = 0 /\ pool[n] = 0
            /\ hist.started[n] = 0 /\ hist.evaluated[n] = 0
            /\ n \notin hist.chained
            /\ \A t \in Threads : node[t] # n

\* A pass has returned in which a flagged operation off the mask was
\* reached by every path: seeding visited it, and a parent of it ran and
\* looked at it.
C4_Witness ==
    /\ PassDone
    /\ \E r \in PlainRels :
          /\ ~InLayer(graph.rels[r].to)
          /\ graph.rels[r].to \in hist.tagged
          /\ hist.evaluated[graph.rels[r].from] = 1
          /\ hist.evaluated[graph.rels[r].to] = 0

(* ------------------------------------------------------------------ *)
(* C5                                                                   *)
(* ------------------------------------------------------------------ *)

\* The graph has cycles, and every cycle goes through a relation flagged
\* cyclic.
FlaggedCyclesOnly == HasCycle(OpRels) /\ ~HasCycle(PlainRels)

\* C5: on a graph whose cycles are all closed by relations flagged cyclic,
\* a pass that has begun returns, and when it has returned every selected
\* operation with a work function has run exactly once.
C5_CycleTolerance ==
    (InPass /\ FlaggedCyclesOnly) ~>
        (PassDone /\ \A n \in Ops : (Selected(n) /\ ~IsNoop(n)) =>
                                      hist.started[n] = 1 /\ hist.evaluated[n] = 1)

\* The pass over the two-node cycle with both relations flagged has
\* returned, both nodes selected, each run once, the second node run by
\* the task of the first (the worker got to it before seeding did).
C5_Witness ==
    /\ PassDone
    /\ graph.name = "cycle2"
    /\ \A n \in Ops : Selected(n) /\ ~IsNoop(n) /\ hist.evaluated[n] = 1
    /\ hist.task_of[2] = 1

(* ------------------------------------------------------------------ *)
(* C6                                                                   *)
(* ------------------------------------------------------------------ *)

\* The linear chain 1 -> 2 -> 3 -> 4 with every node selected and with a
\* work function.
PlainChain ==
    /\ graph.name = "chain4"
    /\ \A n \in Ops : Selected(n) /\ ~IsNoop(n)

\* C6 as claimed: when the pass over the chain has returned, all four
\* nodes have run, the first node is the only one that was submitted to
\* the pool, and the three others were run by the task of the first.
C6_OnlyHeadSubmitted ==
    (PassDone /\ PlainChain) =>
        /\ \A n \in Ops : hist.evaluated[n] = 1
        /\ hist.pushed[1] = 1
        /\ \A n \in Ops \ {1} : hist.pushed[n] = 0 /\ hist.task_of[n] = 1

\* C6, amended: on the chain every node runs exactly once and in chain
\* order, the first node is submitted by schedule_graph, no node is ever
\* submitted from a worker, and each later node is either taken over by
\* the worker loop that ran its predecessor, without submission, or was
\* submitted once by schedule_graph, which won the claim in the window
\* between the worker's decrement and the worker's fetch-and-or (the
\* worker then lost the claim and left).
C6_ChainedOrSeeded ==
    PlainChain =>
        /\ \A n \in Ops \ {1} : hist.started[n] > 0 => hist.evaluated[n - 1] = 1
        /\ hist.fanned = {}
        /\ PassDone =>
              /\ \A n \in Ops : hist.evaluated[n] = 1
              /\ hist.pushed[1] = 1 /\ 1 \in hist.seeded
              /\ \A n \in Ops \ {1} :
                    \/ /\ n \in hist.chained
                       /\ hist.pushed[n] = 0
                       /\ hist.task_of[n] = hist.task_of[n - 1]
                    \/ /\ n \in hist.seeded
                       /\ n \notin hist.chained
                       /\ hist.pushed[n] = 1
                       /\ hist.lost[n] = 1
                       /\ hist.task_of[n] = n

\* The pass over the chain has returned with the whole chain run by the
\* one task that was submitted.
C6_Witness ==
    /\ PassDone
    /\ PlainChain
    /\ hist.chained = {2, 3, 4}
    /\ \A n \in Ops : hist.task_of[n] = 1 /\ hist.evaluated[n] = 1

(* ------------------------------------------------------------------ *)
(* C7                                                                   *)
(* ------------------------------------------------------------------ *)

\* What a pass has to run, read off the graph alone: the least set that
\* holds every selected operation whose dependencies are all in the set.
RECURSIVE ReadyClosure(_)
ReadyClosure(R) ==
    LET T == R \cup { n \in Ops : /\ Selected(n)
                                  /\ \A r \in Dependencies(n) : graph.rels[r].from \in R }
    IN IF T = R THEN R ELSE ReadyClosure(T)

ExpectedRun == { n \in ReadyClosure({}) : ~IsNoop(n) }

\* C7: when a pass has returned, the set of operations whose work function
\* has run is the set fixed by the graph, its tags and the layer mask; it
\* is the same with the pool forced to one thread and without the limit,
\* and the same for every interleaving.
C7_ScheduleIndependent ==
    PassDone => { n \in Ops : hist.evaluated[n] > 0 } = ExpectedRun

\* A pass with the pool forced to one thread has returned; it ran some
\* operations and left others (behind an unflagged cycle) unrun.
C7_Witness ==
    /\ PassDone
    /\ no_threads
    /\ ExpectedRun # {}
    /\ \E n \in Ops : Selected(n) /\ ~IsNoop(n) /\ n \notin ExpectedRun

(* ------------------------------------------------------------------ *)
(* C8                                                                   *)
(* ------------------------------------------------------------------ *)

\* C8: no decrement is ever done on a counter that is zero (the asserts
\* that guard the decrements hold), and the counter never exceeds the
\* number of incoming relations, so it has never wrapped.
C8_PendingNeverNegative ==
    /\ ~hist.asserted
    /\ \A n \in Ops : num_links_pending[n] <= Cardinality(InLinks(n))

\* Both parents of a node with two dependencies have done their decrement
\* while the pass is running: the counter has come down from two to zero.
C8_Witness ==
    /\ InPass
    /\ \E n \in Ops :
          /\ Cardinality(Dependencies(n)) = 2
          /\ \A r \in Dependencies(n) : hist.dec[r] = 1
          /\ num_links_pending[n] = 0

(* ------------------------------------------------------------------ *)
(* C9                                                                   *)
(* ------------------------------------------------------------------ *)

\* C9: every call that has been made returns, on every graph; a call
\* that returned early was made with nothing tagged and had submitted and
\* run nothing;
\* a call that returned after a pass left the pool drained.
C9_PassTerminates ==
    /\ (pc[MainThread] = "entry") ~> (pc[MainThread] = "idle")
    /\ [](last_call = "early_out" =>
             /\ hist.tagged = {}
             /\ \A n \in Ops : hist.pushed[n] = 0 /\ hist.started[n] = 0)
    /\ []((pc[MainThread] = "idle" /\ PassDone) => PoolDrained)

\* A pass over a graph with a cycle that is not flagged has returned,
\* with a selected operation of the cycle still waiting and never run.
C9_Witness ==
    /\ PassDone
    /\ pc[MainThread] = "idle"
    /\ HasCycle(PlainRels)
    /\ \E n \in Ops : /\ Selected(n)
                      /\ num_links_pending[n] > 0
                      /\ hist.started[n] = 0
    /\ \E n \in Ops : hist.evaluated[n] = 1

(* ------------------------------------------------------------------ *)
(* C10                                                                  *)
(* ------------------------------------------------------------------ *)

\* C10: the step a call takes when it finds the tag set empty returns at
\* once, and changes no counter, no scheduled flag, no flag or tag, nothing
\* in the pool and not the context's time; no work function runs and
\* nothing is submitted (the history of the call stays empty).
C10_EmptyPassNoOp ==
    [][(pc[MainThread] = "entry" /\ entry_tags = {}) =>
          /\ pc'[MainThread] = "idle"
          /\ last_call' = "early_out"
          /\ UNCHANGED <<num_links_pending, scheduled, ctime, cfra, pool,
                         flag, entry_tags, node, root, sn, stack, seed_it,
                         calc_todo, hist>>]_vars

\* A call has returned early on a graph that still carries the scheduled
\* flags of an earlier pass, with the time source ahead of the context's
\* time.
C10_Witness ==
    /\ last_call = "early_out"
    /\ pc[MainThread] = "idle"
    /\ ctime # cfra /\ ctime # 0
    /\ \E n \in Ops : scheduled[n]
    /\ hist = EmptyHist

(* ------------------------------------------------------------------ *)
(* C11                                                                  *)
(* ------------------------------------------------------------------ *)

\* C11: a call that was made with entry tags present (it did not take the
\* early out) is answered true by DEG_needs_eval up to its return and
\* false right after it; at any time DEG_needs_eval is true exactly when
\* the set of entry tags is not empty.
C11_NeedsEvalClearedByPass ==
    [][ /\ EvaluateEnd => (DEG_needs_eval /\ ~DEG_needs_eval')
        /\ DEG_needs_eval' <=> (entry_tags' # {}) ]_vars

\* A pass that ran work has just returned and nothing is tagged.
C11_Witness ==
    /\ PassDone
    /\ pc[MainThread] = "idle"
    /\ hist.tagged # {}
    /\ \E n \in Ops : hist.evaluated[n] = 1
    /\ ~DEG_needs_eval

(* ------------------------------------------------------------------ *)
(* C12                                                                  *)
(* ------------------------------------------------------------------ *)

\* calculate_pending_parents has returned and schedule_graph has not yet
\* looked at its first operation.
AfterCalculatePending ==
    /\ InPass
    /\ pc[MainThread] = "seed"
    /\ seed_it = 1

\* C12: when calculate_pending_parents has returned, in whatever order the
\* indices were run, every operation has scheduled false and a counter
\* equal to the number of its incoming relations that are not flagged
\* cyclic and come from a selected operation if it is selected itself,
\* and equal to 0 otherwise.
C12_PendingCountComputed ==
    AfterCalculatePending =>
        \A n \in Ops :
            /\ ~scheduled[n]
            /\ num_links_pending[n] =
                   IF Selected(n) THEN Cardinality(Dependencies(n)) ELSE 0

\* The pre-pass has returned on a graph with an operation that waits for
\* two parents and an operation that is not selected although a parent of
\* it is.
C12_Witness ==
    /\ AfterCalculatePending
    /\ \E n \in Ops : num_links_pending[n] = 2
    /\ \E n \in Ops : ~Selected(n) /\ \E r \in InLinks(n) \cap PlainRels : Selected(graph.rels[r].from)

(* ------------------------------------------------------------------ *)
(* C13                                                                  *)
(* ------------------------------------------------------------------ *)

\* C13 as claimed: the current node of the loop of deg_task_run_func, the
\* submitted one and every one taken over by chaining, has a work function.
C13_NoNoopInLoop ==
    \A t \in Threads : InTask(t) => graph.evaluate[node[t]]

\* C13, amended: the node a task is started with has a work function, so
\* the two assertions ahead of the loop hold; a NOOP is the current node
\* of the loop only after the loop took it over by chaining, and then no
\* work function is called for it: the loop goes on to its outgoing links.
C13_NoopOnlyByChaining ==
    /\ \A n \in Ops : ~graph.evaluate[n] =>
            /\ pool[n] = 0
            /\ hist.pushed[n] = 0
            /\ hist.started[n] = 0
            /\ hist.evaluated[n] = 0
    /\ \A t \in Threads : InTask(t) =>
            /\ graph.evaluate[root[t]]
            /\ ~graph.evaluate[node[t]] =>
                   /\ node[t] # root[t]
                   /\ node[t] \in hist.chained
                   /\ pc[t] \notin {"run_exec"}

\* A worker that ran an operation has taken over its only child, a NOOP,
\* and is at the outgoing links of the NOOP.
C13_Witness ==
    \E t \in Threads :
        /\ InTask(t)
        /\ ~graph.evaluate[node[t]]
        /\ hist.evaluated[root[t]] = 1
        /\ pc[t] = "run_links"

(* ------------------------------------------------------------------ *)
(* C14                                                                  *)
(* ------------------------------------------------------------------ *)

\* C14: no NOOP is ever handed to BLI_task_pool_push_from_thread, queued
\* in the pool or started as a task; each claim schedule_node wins on a
\* NOOP is followed, in the same call, by schedule_children for it, and
\* when the pass has returned every relation that leaves such a NOOP for
\* a selected child and is not cyclic has done its decrement.
C14_NoopNeverSubmitted ==
    \A n \in Ops : ~graph.evaluate[n] =>
        /\ hist.pushed[n] = 0
        /\ pool[n] = 0
        /\ n \notin hist.seeded \cup hist.fanned
        /\ \A t \in Threads : root[t] # n
        /\ hist.noop_fan[n] <= 1
        /\ hist.claimed[n] = hist.noop_fan[n] + (IF n \in hist.chained THEN 1 ELSE 0)
        /\ (PassDone /\ hist.noop_fan[n] = 1) =>
               \A i \in 1 .. Len(OutLinks(n)) :
                   LET r == OutLinks(n)[i] IN
                   (~graph.rels[r].cyclic /\ Selected(graph.rels[r].to)) => hist.dec[r] = 1

\* The pass has returned; schedule_node claimed a NOOP, and an operation
\* was submitted from the schedule_children that followed.
C14_Witness ==
    /\ PassDone
    /\ \E r \in RelIds :
           /\ graph.rels[r].from # TimeSource
           /\ ~graph.evaluate[graph.rels[r].from]
           /\ hist.noop_fan[graph.rels[r].from] = 1
           /\ hist.dec[r] = 1
           /\ graph.rels[r].to \in hist.fanned
           /\ hist.evaluated[graph.rels[r].to] = 1

(* ------------------------------------------------------------------ *)
(* C15                                                                  *)
(* ------------------------------------------------------------------ *)

\* The counters hold what the pre-pass of the current call left and the
\* traversals since have changed.
CountersOfPass == (InPass /\ pc[MainThread] # "calc") \/ PassDone

\* C15: no decrement is ever done for a relation flagged cyclic; a
\* relation that is not cyclic does at most one decrement in a pass, and
\* only once its source has been executed (or, a NOOP, claimed); the call
\* schedule_graph makes never asks for a decrement; so a counter is at any
\* time the value of the pre-pass less the number of non-cyclic incoming
\* relations traversed so far.
C15_CyclicNeverDecrements ==
    /\ \A r \in RelIds :
           /\ graph.rels[r].cyclic => hist.dec[r] = 0
           /\ hist.dec[r] <= 1
           /\ hist.dec[r] = 1 =>
                  /\ graph.rels[r].from # TimeSource
                  /\ Completed(graph.rels[r].from)
    /\ (pc[MainThread] \in {"sn_enter", "sn_read", "sn_claim"}
            /\ stack[MainThread] = <<>> /\ ~InTask(MainThread)) =>
           ~sn[MainThread].dec
    /\ CountersOfPass =>
           \A n \in Ops :
               num_links_pending[n] =
                   (IF Selected(n) THEN Cardinality(Dependencies(n)) ELSE 0)
                   - Cardinality({ r \in InLinks(n) : hist.dec[r] = 1 })

\* The pass has returned; a worker went through a cyclic relation, the
\* only link of the node it had run, found the child unclaimed and took it
\* over, and a relation that is not cyclic has done its decrement.
C15_Witness ==
    /\ PassDone
    /\ \E r \in RelIds :
           /\ graph.rels[r].cyclic
           /\ OutLinks(graph.rels[r].from) = <<r>>
           /\ graph.rels[r].to \in hist.chained
           /\ hist.dec[r] = 0
    /\ \E r \in RelIds : hist.dec[r] = 1

(* ------------------------------------------------------------------ *)
(* C16                                                                  *)
(* ------------------------------------------------------------------ *)

\* The thread is in schedule_children or schedule_node.
Scheduling(p) == p \in {"sc_iter", "sn_enter", "sn_read", "sn_claim"}

\* C16: in deg_task_run_func the current node changes only to the child
\* of its single outgoing relation, in the step in which this thread's
\* fetch-and-or finds the child unclaimed, the child's counter being zero;
\* a node with no or with several outgoing relations sends the thread to
\* schedule_children for it, from where the thread runs through all the
\* links and leaves the task without a further node.
C16_NoChainAcrossBranch ==
    [][ \A t \in Threads : InTask(t) =>
          /\ (node'[t] # node[t] /\ node'[t] # 0) =>
                 /\ Len(OutLinks(node[t])) = 1
                 /\ node'[t] = graph.rels[OutLinks(node[t])[1]].to
                 /\ pc[t] = "ch_claim"
                 /\ ~scheduled[node'[t]] /\ scheduled'[node'[t]]
                 /\ num_links_pending[node'[t]] = 0
                 /\ root'[t] = root[t]
          /\ (pc[t] = "run_links" /\ pc'[t] # pc[t] /\ Len(OutLinks(node[t])) # 1) =>
                 /\ pc'[t] = "sc_iter"
                 /\ stack'[t] = <<[node |-> node[t], it |-> 1]>>
          /\ (Scheduling(pc[t]) /\ pc'[t] # pc[t]) =>
                 /\ Len(OutLinks(node[t])) # 1
                 /\ Scheduling(pc'[t]) \/ pc'[t] = "wait"
                 /\ node'[t] \in {node[t], 0}
                 /\ pc'[t] = "wait" =>
                        stack[t] = <<[node |-> node[t],
                                      it |-> Len(OutLinks(node[t])) + 1]>>
      ]_vars

\* A worker has executed a node with two outgoing relations, has been
\* through both in schedule_children, submitting both children, and is
\* about to leave the task.
C16_Witness ==
    \E t \in Threads :
        /\ InTask(t)
        /\ pc[t] = "sc_iter"
        /\ hist.evaluated[node[t]] = 1
        /\ Len(OutLinks(node[t])) = 2
        /\ stack[t] = <<[node |-> node[t], it |-> 3]>>
        /\ \A i \in 1 .. 2 : graph.rels[OutLinks(node[t])[i]].to \in hist.fanned

(* ------------------------------------------------------------------ *)
(* C17                                                                  *)
(* ------------------------------------------------------------------ *)

\* C17: from the start of a full pass to the next call eval_ctx->ctime is
\* the cfra of the time source, so every work function runs with the time
\* of its pass; ctime is written in one step only, the one that takes
\* DEG_evaluate_on_refresh_ex from its entry to the pre-pass, when no
\* counter has been computed, nothing is in the pool and nothing has run.
C17_TimeSetBeforeWork ==
    /\ []((InPass \/ PassDone) => ctime = cfra)
    /\ [](\A t \in Threads : pc[t] \in {"run_eval", "run_exec", "run_links"} =>
              InPass /\ ctime = cfra)
    /\ [][ ctime' # ctime =>
              /\ pc[MainThread] = "entry" /\ pc'[MainThread] = "calc"
              /\ ctime' = cfra /\ cfra' = cfra
              /\ calc_todo' = Ops
              /\ PoolDrained
              /\ hist = NewHist(flag) ]_vars

\* A work function is running in a pass whose time, 2, differs from the
\* initial time of the context and of the time source.
C17_Witness ==
    /\ InPass
    /\ ctime = 2 /\ cfra = 2
    /\ \E t \in Threads : pc[t] = "run_exec"

(* ------------------------------------------------------------------ *)
(* C18                                                                  *)
(* ------------------------------------------------------------------ *)

\* C18: from the end of the pre-pass to the return of the call, and until
\* the next call, an operation whose scheduled flag is set has a counter
\* of zero: no path sets the flag while a counted dependency of the node
\* is outstanding, so an operation that is skipped because its flag is set
\* is owed no decrement.
C18_ClaimedImpliesNonePending ==
    CountersOfPass =>
        \A n \in Ops : scheduled[n] =>
            /\ num_links_pending[n] = 0
            /\ \A r \in Dependencies(n) : hist.dec[r] = 1

\* In a running pass an operation with two counted parents has been
\* claimed while another operation still waits for a parent.
C18_Witness ==
    /\ InPass /\ pc[MainThread] # "calc"
    /\ \E n \in Ops : scheduled[n] /\ Cardinality(Dependencies(n)) = 2
    /\ \E n \in Ops : ~scheduled[n] /\ num_links_pending[n] > 0

(* ------------------------------------------------------------------ *)
(* C19                                                                  *)
(* ------------------------------------------------------------------ *)

\* schedule_graph is through and the pool holds no queued and no running
\* task, or the call has returned.
PoolDrainedAtEnd == (InPass /\ pc[MainThread] = "wait" /\ PoolDrained) \/ PassDone

\* C19: when the pool has drained at the end of a pass, on any graph, no
\* selected operation with a counter of zero is unclaimed, and every
\* claimed operation with a work function has had it run to completion,
\* once.
C19_NoLostWakeup ==
    PoolDrainedAtEnd =>
        \A n \in Ops :
            /\ (Selected(n) /\ num_links_pending[n] = 0) => scheduled[n]
            /\ (scheduled[n] /\ graph.evaluate[n]) =>
                   hist.started[n] = 1 /\ hist.evaluated[n] = 1

\* The pool has drained after a pass in which the claim on an operation
\* with two parents was attempted more than once, the winner not being
\* schedule_graph's own call; the operation has run.
C19_Witness ==
    /\ PoolDrainedAtEnd
    /\ \E n \in Ops :
           /\ Cardinality(Dependencies(n)) = 2
           /\ hist.lost[n] >= 1
           /\ n \notin hist.seeded
           /\ hist.evaluated[n] = 1

(* ------------------------------------------------------------------ *)
(* C20                                                                  *)
(* ------------------------------------------------------------------ *)

\* C20: from the end of the pre-pass to the return of the call an
\* operation that is not selected keeps a counter of zero and a scheduled
\* flag of false, is never claimed, and no relation into it or out of it
\* does a decrement; a worker that finds such an operation as the only
\* child of its current node leaves the task in that step, the counters
\* and flags of all operations unchanged.
C20_IneligibleUntouched ==
    /\ [](CountersOfPass =>
             \A n \in Ops : ~Selected(n) =>
                 /\ num_links_pending[n] = 0
                 /\ ~scheduled[n]
                 /\ hist.claimed[n] = 0 /\ hist.lost[n] = 0
                 /\ pool[n] = 0 /\ hist.started[n] = 0
                 /\ \A r \in RelIds :
                        (graph.rels[r].to = n \/ graph.rels[r].from = n) => hist.dec[r] = 0)
    /\ [][ \A t \in Threads :
              (/\ pc[t] = "ch_dec"
               /\ pc'[t] # pc[t]
               /\ ~Selected(graph.rels[OutLinks(node[t])[1]].to)) =>
                  /\ pc'[t] = "wait" /\ node'[t] = 0
                  /\ num_links_pending' = num_links_pending
                  /\ scheduled' = scheduled
                  /\ pool' = pool ]_vars

\* The pass has returned; a worker ran an operation whose only child is
\* not selected and left, and a selected successor of that child has run
\* all the same, submitted by schedule_graph.
C20_Witness ==
    /\ PassDone
    /\ \E r, q \in RelIds :
           /\ graph.rels[r].from # TimeSource
           /\ OutLinks(graph.rels[r].from) = <<r>>
           /\ hist.evaluated[graph.rels[r].from] = 1
           /\ ~Selected(graph.rels[r].to)
           /\ graph.rels[q].from = graph.rels[r].to
           /\ Selected(graph.rels[q].to)
           /\ graph.rels[q].to \in hist.seeded
           /\ hist.evaluated[graph.rels[q].to] = 1

====
